---- MODULE Spec2Model ----
(***************************************************************************)
(* Model of services/nowpayments.py: CoinGeckoClient.convert_to_crypto     *)
(* (bounded retry loop around one GET per attempt, Decimal conversion) and *)
(* NowPaymentsClient.create_invoice / get_payment_status (one request per  *)
(* call, validation of the JSON answer).                                   *)
(*                                                                         *)
(* Strings are sequences of one-character strings, so that str.lower(),    *)
(* str.upper(), str(x) and Decimal(text) are modelled by what they do.     *)
(* Decimals are records sign/digits/exp like decimal.Decimal's triple.     *)
(***************************************************************************)
EXTENDS Integers, Sequences, FiniteSets, TLC

\* ------------------------------------------------------------------ bounds
\* Largest configured APIConfig.MAX_RETRIES explored.
MaxRetries == 3

\* ----------------------------------------------------------------- strings
UpperLetters == <<"A","B","C","D","E","F","G","H","I","J","K","L","M",
                  "N","O","P","Q","R","S","T","U","V","W","X","Y","Z">>
LowerLetters == <<"a","b","c","d","e","f","g","h","i","j","k","l","m",
                  "n","o","p","q","r","s","t","u","v","w","x","y","z">>

IndexIn(c, letters) ==
    IF \E i \in 1..Len(letters) : letters[i] = c
    THEN CHOOSE i \in 1..Len(letters) : letters[i] = c
    ELSE 0

LowerChar(c) == IF IndexIn(c, UpperLetters) > 0 THEN LowerLetters[IndexIn(c, UpperLetters)] ELSE c
UpperChar(c) == IF IndexIn(c, LowerLetters) > 0 THEN UpperLetters[IndexIn(c, LowerLetters)] ELSE c

\* str.lower()
Lower(s) == [i \in 1..Len(s) |-> LowerChar(s[i])]

\* str.upper()
Upper(s) == [i \in 1..Len(s) |-> UpperChar(s[i])]

\* ---------------------------------------------------------------- decimals
\* Precision of the default decimal context the module computes under.
PREC == 28
\* Exponent of the quantize target Decimal('0.00000001').
QUANT_EXP == -8

DigitChars == <<"0","1","2","3","4","5","6","7","8","9">>
IsDigitChar(c) == IndexIn(c, DigitChars) > 0
DigitVal(c) == IndexIn(c, DigitChars) - 1

Finite(sign, digits, exp) == [kind |-> "finite", sign |-> sign, digits |-> digits, exp |-> exp]
NaN == [kind |-> "nan", sign |-> 0, digits |-> <<>>, exp |-> 0]
\* The outcome of a Decimal operation that signals InvalidOperation.
Invalid == [kind |-> "invalid", sign |-> 0, digits |-> <<>>, exp |-> 0]

RECURSIVE StripLeadingZeros(_)
StripLeadingZeros(ds) ==
    IF Len(ds) = 0 THEN <<0>>
    ELSE IF Len(ds) > 1 /\ ds[1] = 0 THEN StripLeadingZeros(Tail(ds))
    ELSE ds

Zeros(n) == [i \in 1..n |-> 0]

RECURSIVE IntToDigits(_)
IntToDigits(n) == IF n < 10 THEN <<n>> ELSE Append(IntToDigits(n \div 10), n % 10)

RECURSIVE DigitsToInt(_)
DigitsToInt(ds) ==
    IF Len(ds) = 0 THEN 0
    ELSE DigitsToInt(SubSeq(ds, 1, Len(ds) - 1)) * 10 + ds[Len(ds)]

IsZero(d) == d.digits = <<0>>

\* Decimal(text): [sign] digits [. digits], or NaN; anything else signals
\* InvalidOperation.  (The texts modelled carry no exponent part, no
\* surrounding blanks and no underscores.)
ParseDecimal(s) ==
    LET signed == Len(s) > 0 /\ s[1] \in {"-", "+"}
        sign   == IF Len(s) > 0 /\ s[1] = "-" THEN 1 ELSE 0
        body   == IF signed THEN Tail(s) ELSE s
        dots   == {i \in 1..Len(body) : body[i] = "."}
        dot    == IF dots = {} THEN Len(body) + 1 ELSE CHOOSE i \in dots : TRUE
        intp   == SubSeq(body, 1, dot - 1)
        frac   == SubSeq(body, dot + 1, Len(body))
        all    == intp \o frac
    IN  IF Lower(body) = <<"n","a","n">> THEN NaN
        ELSE IF Cardinality(dots) > 1 \/ Len(all) = 0
                \/ \E i \in 1..Len(all) : ~IsDigitChar(all[i])
        THEN Invalid
        ELSE Finite(sign, StripLeadingZeros([i \in 1..Len(all) |-> DigitVal(all[i])]), -Len(frac))

\* str(Decimal), the branch without exponent (exp <= 0, more than -6 digits
\* left of the point), which is the branch every modelled amount takes.
DecimalToStr(d) ==
    LET chars     == [i \in 1..Len(d.digits) |-> DigitChars[d.digits[i] + 1]]
        dotplace  == d.exp + Len(d.digits)
        intpart   == IF dotplace <= 0 THEN <<"0">> ELSE SubSeq(chars, 1, dotplace)
        fracpart  == IF d.exp = 0 THEN <<>>
                     ELSE IF dotplace <= 0
                     THEN <<".">> \o [i \in 1..(-dotplace) |-> "0"] \o chars
                     ELSE <<".">> \o SubSeq(chars, dotplace + 1, Len(chars))
    IN  (IF d.sign = 1 THEN <<"-">> ELSE <<>>) \o intpart \o fracpart

\* price <= 0 for a finite Decimal.
NonPositive(d) == d.sign = 1 \/ IsZero(d)

\* digits + 1, with carry.
RECURSIVE Increment(_)
Increment(ds) ==
    IF Len(ds) = 0 THEN <<1>>
    ELSE IF ds[Len(ds)] < 9 THEN [ds EXCEPT ![Len(ds)] = @ + 1]
    ELSE Append(Increment(SubSeq(ds, 1, Len(ds) - 1)), 0)

AllZero(ds) == \A i \in 1..Len(ds) : ds[i] = 0

\* ROUND_HALF_UP on the digits dropped after position keep.
RoundUpHalfUp(ds, keep) == ds[keep + 1] >= 5

\* Decimal._round_half_even: does dropping the digits after position keep
\* round the kept coefficient up?
RoundUpHalfEven(ds, keep) ==
    LET rest == SubSeq(ds, keep + 2, Len(ds))
    IN  IF ds[keep + 1] = 5 /\ AllZero(rest)
        THEN keep > 0 /\ ds[keep] % 2 = 1
        ELSE ds[keep + 1] >= 5

\* The coefficient cut to its first keep digits (0 <= keep < Len(ds)) under
\* the context's rounding, ROUND_HALF_EVEN.
RoundCoefficient(ds, keep) ==
    LET kept == IF keep = 0 THEN <<0>> ELSE SubSeq(ds, 1, keep)
    IN  IF RoundUpHalfEven(ds, keep) THEN StripLeadingZeros(Increment(kept)) ELSE kept

\* Long division: k more quotient digits after remainder r of a division by d.
RECURSIVE LongDiv(_, _, _, _)
LongDiv(acc, r, d, k) ==
    IF k = 0 THEN [q |-> acc, r |-> r]
    ELSE LongDiv(Append(acc, (r * 10) \div d), (r * 10) % d, d, k - 1)

\* Decimal._fix: the coefficient rounded to the context precision.
Fix(ds, exp) ==
    IF Len(ds) <= PREC THEN Finite(0, ds, exp)
    ELSE LET r == RoundCoefficient(ds, PREC)
         IN  IF Len(r) > PREC
             THEN Finite(0, SubSeq(r, 1, PREC), exp + (Len(ds) - PREC) + 1)
             ELSE Finite(0, r, exp + (Len(ds) - PREC))

RECURSIVE ReduceExact(_, _, _)
ReduceExact(ds, exp, ideal) ==
    IF exp < ideal /\ Len(ds) > 1 /\ ds[Len(ds)] = 0
    THEN ReduceExact(SubSeq(ds, 1, Len(ds) - 1), exp + 1, ideal)
    ELSE [digits |-> ds, exp |-> exp]

\* Decimal.__truediv__ for positive finite operands: PREC + 1 digits by
\* integer division, a sticky last digit when inexact, then _fix.
Divide(x, y) ==
    LET shift == Len(y.digits) - Len(x.digits) + PREC + 1
        a     == DigitsToInt(x.digits)
        b     == DigitsToInt(y.digits)
        ld    == LongDiv(IntToDigits(a \div b), a % b, b, shift)
        coeff == StripLeadingZeros(ld.q)
        exp   == x.exp - y.exp - shift
        last  == coeff[Len(coeff)]
    IN  IF ld.r # 0
        THEN Fix(IF last % 5 = 0 THEN [coeff EXCEPT ![Len(coeff)] = last + 1] ELSE coeff, exp)
        ELSE LET red == ReduceExact(coeff, exp, x.exp - y.exp)
             IN  Fix(red.digits, red.exp)

\* Decimal.quantize(Decimal('0.00000001')) of a non-negative finite value:
\* rescaled to exponent QUANT_EXP, InvalidOperation when the coefficient
\* would need more than PREC digits.
Quantize(d) ==
    LET n == Len(d.digits)
    IN  IF IsZero(d) THEN Finite(0, <<0>>, QUANT_EXP)
        ELSE IF (d.exp + n - 1) - QUANT_EXP + 1 > PREC THEN Invalid
        ELSE IF d.exp >= QUANT_EXP
        THEN Finite(0, d.digits \o Zeros(d.exp - QUANT_EXP), QUANT_EXP)
        ELSE LET keep == n + d.exp - QUANT_EXP
                 ds   == IF keep < 0 THEN <<1>> ELSE d.digits
                 r    == RoundCoefficient(ds, IF keep < 0 THEN 0 ELSE keep)
             IN  IF Len(r) > PREC THEN Invalid ELSE Finite(0, r, QUANT_EXP)

\* ------------------------------------------------------------- JSON values
\* A value found in a decoded JSON object: a key that is absent, null, a
\* string, or a number given by the text str() prints for it.
JAbsent == [t |-> "absent", s |-> <<>>]
JNull == [t |-> "null", s |-> <<>>]
JStr(s) == [t |-> "str", s |-> s]
JNum(s) == [t |-> "num", s |-> s]

\* str(x)
PyStr(v) == IF v.t \in {"absent", "null"} THEN <<"N","o","n","e">> ELSE v.s

\* Truthiness that also takes the empty string for a value.
TruthyNotNone(v) == v.t \in {"str", "num"}

\* bool(x): None, "" and 0 are false.
Truthy(v) ==
    CASE v.t = "str" -> v.s # <<>>
      [] v.t = "num" -> ~IsZero(ParseDecimal(v.s))
      [] OTHER -> FALSE

\* dict.get(key): None for a key that is absent.
Get(data, key) == IF data[key].t = "absent" THEN JNull ELSE data[key]

\* dict.get(key, default) that ignores the answer's value.
GetDefaultOnly(data, key, default) == default

\* dict.get(key, default): the default only for a key that is absent.
GetDefault(data, key, default) == IF data[key].t = "absent" THEN default ELSE data[key]

\* ------------------------------------------------------------------ errors
NoError == [type |-> "None", msg |-> "", about |-> <<>>]
Error(type, msg, about) == [type |-> type, msg |-> msg, about |-> about]

\* The classes an exception type is an instance of.  (The JSONDecodeError of
\* response.json() is a ValueError; recent requests releases derive it from
\* RequestException as well.)
Bases(type) ==
    CASE type = "ConnectionError"  -> {"ConnectionError", "RequestException", "OSError"}
      [] type = "HTTPError"        -> {"HTTPError", "RequestException", "OSError"}
      [] type = "JSONDecodeError"  -> {"JSONDecodeError", "ValueError", "RequestException"}
      [] type = "InvalidOperation" -> {"InvalidOperation", "ArithmeticError"}
      [] type = "CoinGeckoError"   -> {"CoinGeckoError", "RuntimeError"}
      [] type = "NowPaymentsError" -> {"NowPaymentsError", "RuntimeError"}
      [] OTHER -> {type}

\* An except clause that leaves out decimal.InvalidOperation.
ConvertExceptNoInvalidOperation == {"RequestException", "ValueError", "CoinGeckoError"}

\* except (requests.RequestException, ValueError, InvalidOperation, CoinGeckoError)
ConvertExcept == {"RequestException", "ValueError", "InvalidOperation", "CoinGeckoError"}

\* except requests.RequestException
PaymentExcept == {"RequestException"}

Catches(clause, error) == Bases(error.type) \cap clause # {}

\* What session.get / session.post followed by raise_for_status raises, if
\* anything: the transport fails, or the status is not a success.
RequestError(resp) ==
    CASE resp.kind = "transport"  -> Error("ConnectionError", "connection failed", <<>>)
      [] resp.kind = "http_error" -> Error("HTTPError", "error status", <<>>)
      [] OTHER -> NoError

\* What response.json() raises on a body that is not JSON.
JsonError == Error("JSONDecodeError", "body is not JSON", <<>>)

InvalidOperation == Error("InvalidOperation", "", <<>>)

\* -------------------------------------------------------- CoinGeckoClient
\* The table without its identity fallback: an unknown symbol has no id.
CoinGeckoIdNoFallback(symbol) ==
    CASE symbol = <<"b","t","c">> -> <<"b","i","t","c","o","i","n">>
      [] symbol = <<"l","t","c">> -> <<"l","i","t","e","c","o","i","n">>
      [] OTHER -> <<>>

\* CRYPTO_TO_COINGECKO_ID.get(crypto_symbol, crypto_symbol)
CRYPTO_TO_COINGECKO_ID(symbol) ==
    CASE symbol = <<"b","t","c">> -> <<"b","i","t","c","o","i","n">>
      [] symbol = <<"l","t","c">> -> <<"l","i","t","e","c","o","i","n">>
      [] OTHER -> symbol

\* The names convert_to_crypto binds before its loop.
ConvertLocals(currency, crypto_symbol) ==
    [crypto_symbol |-> Lower(crypto_symbol),
     crypto_id     |-> CRYPTO_TO_COINGECKO_ID(Lower(crypto_symbol)),
     currency      |-> Lower(currency),
     params        |-> [ids           |-> CRYPTO_TO_COINGECKO_ID(Lower(crypto_symbol)),
                        vs_currencies |-> Lower(currency)]]

\* if price <= 0
BadPrice(price) == NonPositive(price)

\* The key the price is looked up under in the payload.
PayloadKey(loc) == loc.crypto_id

\* The body of the try block after a request that succeeded and decoded:
\* [kind |-> "return", value, error] or [kind |-> "raise", ...].
PriceResult(payload, loc, fiat_amount) ==
    LET Raise(e) == [kind |-> "raise", value |-> Invalid, error |-> e]
        id       == PayloadKey(loc)
    IN  IF id \notin DOMAIN payload \/ loc.currency \notin DOMAIN payload[id]
        THEN Raise(Error("CoinGeckoError", "Missing price for", <<loc.crypto_symbol, loc.currency>>))
        ELSE LET price == ParseDecimal(PyStr(payload[id][loc.currency]))
             IN  IF price.kind # "finite" THEN Raise(InvalidOperation)
                 ELSE IF BadPrice(price)
                 THEN Raise(Error("CoinGeckoError", "Invalid price received", <<DecimalToStr(price)>>))
                 ELSE LET q == Quantize(Divide(fiat_amount, price))
                      IN  IF q.kind # "finite" THEN Raise(InvalidOperation)
                          ELSE [kind |-> "return", value |-> q, error |-> NoError]

\* One pass through the try block for the provider's answer resp.
AttemptResult(resp, loc, fiat_amount) ==
    IF RequestError(resp) # NoError
    THEN [kind |-> "raise", value |-> Invalid, error |-> RequestError(resp)]
    ELSE IF resp.kind = "not_json"
    THEN [kind |-> "raise", value |-> Invalid, error |-> JsonError]
    ELSE PriceResult(resp.payload, loc, fiat_amount)

\* raise CoinGeckoError(f"Unable to fetch {crypto_symbol.upper()} price: {last_error}")
Exhausted(loc, error) ==
    [type |-> "CoinGeckoError", msg |-> "Unable to fetch price",
     about |-> <<Upper(loc.crypto_symbol)>>, cause |-> error]

\* ------------------------------------------------------- NowPaymentsClient
\* float(price_amount): the double nearest to the amount.
Float(d) == [t |-> "float", of |-> d]

\* The JSON body with order_id whenever the argument is not None.
InvoicePayloadOrderIdNotNone(price_amount, price_currency, pay_currency, description, order_id) ==
    LET base == [price_amount      |-> Float(price_amount),
                 price_currency    |-> Lower(price_currency),
                 pay_currency      |-> Lower(pay_currency),
                 order_description |-> description]
    IN  IF order_id.t # "null" THEN base @@ [order_id |-> PyStr(order_id)] ELSE base

\* The JSON body create_invoice posts.
InvoicePayload(price_amount, price_currency, pay_currency, description, order_id) ==
    LET base == [price_amount      |-> Float(price_amount),
                 price_currency    |-> Lower(price_currency),
                 pay_currency      |-> Lower(pay_currency),
                 order_description |-> description]
    IN  IF Truthy(order_id) THEN base @@ [order_id |-> PyStr(order_id)] ELSE base

\* if not payment_id or not pay_address or pay_amount is None
InvoiceIncomplete(data) ==
    \/ ~Truthy(Get(data, "payment_id"))
    \/ ~Truthy(Get(data, "pay_address"))
    \/ Get(data, "pay_amount").t = "null"

\* Decimal(str(data.get('price_amount', price_amount)))
InvoicePriceAmount(data, price_amount) ==
    ParseDecimal(PyStr(GetDefault(data, "price_amount", JStr(DecimalToStr(price_amount)))))

\* What create_invoice does with a decoded answer: the PaymentInvoice it
\* returns or the error it raises.
InvoiceResult(data, payload, price_amount) ==
    LET Raise(e)  == [kind |-> "raise", value |-> <<>>, error |-> e]
        pay       == ParseDecimal(PyStr(Get(data, "pay_amount")))
        price     == InvoicePriceAmount(data, price_amount)
    IN  IF InvoiceIncomplete(data)
        THEN Raise([type |-> "NowPaymentsError", msg |-> "Unexpected NOWPayments response",
                    about |-> <<>>, data |-> data])
        ELSE IF pay.kind = "invalid" \/ price.kind = "invalid" THEN Raise(InvalidOperation)
        ELSE [kind  |-> "return",
              value |-> [payment_id     |-> PyStr(Get(data, "payment_id")),
                         pay_address    |-> PyStr(Get(data, "pay_address")),
                         pay_amount     |-> pay,
                         price_amount   |-> price,
                         price_currency |-> payload.price_currency,
                         pay_currency   |-> payload.pay_currency],
              error |-> NoError]

\* get_payment_status that lower-cases the status it returns.
StatusValueLowered(status) == Lower(PyStr(status))

\* return str(status)
StatusValue(status) == PyStr(status)

\* What get_payment_status does with a decoded answer.
StatusResult(payload, payment_id) ==
    LET status == Get(payload, "payment_status")
    IN  IF ~Truthy(status)
        THEN [kind |-> "raise", value |-> <<>>,
              error |-> [type |-> "NowPaymentsError", msg |-> "returned unexpected payload",
                         about |-> <<payment_id>>, data |-> payload]]
        ELSE [kind |-> "return", value |-> StatusValue(status), error |-> NoError]

\* What either NowPaymentsClient call makes of the provider's answer: the
\* request guarded by except RequestException, response.json() and the rest
\* outside it.
PaymentOutcome(resp, failed_msg, about, decoded) ==
    IF RequestError(resp) # NoError
    THEN IF Catches(PaymentExcept, RequestError(resp))
         THEN [kind |-> "raise", value |-> <<>>,
               error |-> [type |-> "NowPaymentsError", msg |-> failed_msg,
                          about |-> about, cause |-> RequestError(resp)]]
         ELSE [kind |-> "raise", value |-> <<>>, error |-> RequestError(resp)]
    ELSE IF resp.kind = "not_json"
    THEN [kind |-> "raise", value |-> <<>>, error |-> JsonError]
    ELSE decoded

\* ------------------------------------------------------------------ inputs
Text100 == <<"1","0","0">>
FiatAmounts ==
    {ParseDecimal(Text100), ParseDecimal(<<"0",".","5">>), ParseDecimal(<<"1",".","5">>)}
Currencies == {<<"U","S","D">>, <<"u","s","d">>}
Symbols == {<<"B","T","C">>, <<"b","t","c">>, <<"L","t","c">>, <<"x","y","z">>}

PayloadIds == {<<"b","i","t","c","o","i","n">>, <<"l","i","t","e","c","o","i","n">>,
               <<"b","t","c">>, <<"x","y","z">>}
PriceLeaves ==
    {JStr(<<"5","0","0","0","0">>), JNum(<<"7">>), JStr(<<"6","4","0","0","0",".","5">>),
     JNum(<<"1","0","0","0","0","0","0","0","0">>),
     JNum(<<"0">>), JNum(<<"-","1">>), JStr(<<"a","b","c">>), JNull, JStr(<<"N","a","N">>)}

\* Decoded bodies of GET /simple/price: an object keyed by id, then currency,
\* as the provider documents it; the leaf is any JSON scalar.  Bodies: the
\* empty object, an id without currencies, one id with one currency (the
\* currency key in either case), and an object with two ids.
PricePayloads ==
    {<<>>}
    \cup {id :> <<>> : id \in PayloadIds}
    \cup {id :> (<<"u","s","d">> :> leaf) : id \in PayloadIds, leaf \in PriceLeaves}
    \cup {id :> (<<"U","S","D">> :> JStr(<<"5","0","0","0","0">>)) : id \in PayloadIds}
    \cup {(<<"b","i","t","c","o","i","n">> :> (<<"u","s","d">> :> JStr(<<"5","0","0","0","0">>)))
          @@ (<<"b","t","c">> :> (<<"u","s","d">> :> JNum(<<"7">>)))}

FailedResponses == {[kind |-> k, payload |-> <<>>] : k \in {"transport", "http_error", "not_json"}}
PriceResponses == FailedResponses \cup {[kind |-> "json", payload |-> p] : p \in PricePayloads}

InvoiceAmounts == {ParseDecimal(<<"1","0",".","0","0">>), ParseDecimal(<<"1","9",".","9","9">>)}
PayCurrencies == {<<"B","T","C">>, <<"l","t","c">>}
OrderIds == {JNull, JStr(<<>>), JStr(<<"A","1">>), JNum(<<"4","2">>), JNum(<<"0">>)}
Description == <<"o","r","d","e","r">>
InvoiceData ==
    [payment_id   : {JAbsent, JNull, JStr(<<>>), JStr(<<"1","2","3">>), JNum(<<"1","2","3">>)},
     pay_address  : {JAbsent, JStr(<<>>), JStr(<<"a","d","d","r">>)},
     pay_amount   : {JAbsent, JNull, JStr(<<"0",".","0","0","2">>), JStr(<<"a","b","c">>), JNum(<<"0">>)},
     price_amount : {JAbsent, JNull, JStr(<<"2","5",".","5">>), JStr(<<"x">>)},
     price_currency : {JStr(<<"E","U","R">>)},
     pay_currency   : {JStr(<<"E","T","H">>)}]
InvoiceResponses == FailedResponses \cup {[kind |-> "json", payload |-> d] : d \in InvoiceData}

PaymentIds == {<<"1","2","3">>, <<"p","9">>}
StatusData ==
    [payment_status : {JAbsent, JNull, JStr(<<>>), JStr(<<"f","i","n","i","s","h","e","d">>),
                       JStr(<<"F","i","n","i","s","h","e","d">>), JStr(<<" ","w","a","i","t","i","n","g">>),
                       JNum(<<"5">>), JNum(<<"0">>)}]
StatusResponses == FailedResponses \cup {[kind |-> "json", payload |-> d] : d \in StatusData}

\* ------------------------------------------------------------------- state
VARIABLES
    MAX_RETRIES,  \* APIConfig.MAX_RETRIES, read from the configuration
    pc,           \* "idle", "convert" (inside the retry loop) or "done"
    op,           \* the method called
    args,         \* its arguments
    loc,          \* convert_to_crypto's locals bound before the loop
    attempt,      \* the loop variable of convert_to_crypto
    last_error,   \* convert_to_crypto's last_error
    events,       \* requests sent and sleeps taken by the call, in order
    response,     \* the provider's latest answer
    outcome       \* what the call gave its caller: a value or an error

vars == <<MAX_RETRIES, pc, op, args, loc, attempt, last_error, events, response, outcome>>

NoOutcome == [kind |-> "none", value |-> <<>>, error |-> NoError]
NoResponse == [kind |-> "none", payload |-> <<>>]

Init ==
    /\ MAX_RETRIES \in 1..MaxRetries
    /\ pc = "idle"
    /\ op = "none"
    /\ args = <<>>
    /\ loc = <<>>
    /\ attempt = 0
    /\ last_error = NoError
    /\ events = <<>>
    /\ response = NoResponse
    /\ outcome = NoOutcome

\* time.sleep(APIConfig.RETRY_DELAY)
Sleep == [ev |-> "sleep", seconds |-> "RETRY_DELAY"]

\* What the except block does after recording the error: it sleeps.
SleepAfterFailure == <<Sleep>>

\* last_error kept from the first failure only.
RecordErrorFirstOnly(old, error) == IF old = NoError THEN error ELSE old

\* last_error = error
RecordError(old, error) == error

\* convert_to_crypto up to its first request.
CallConvert(fiat_amount, currency, crypto_symbol) ==
    /\ pc = "idle"
    /\ pc' = "convert"
    /\ op' = "convert_to_crypto"
    /\ args' = [fiat_amount |-> fiat_amount, currency |-> currency, crypto_symbol |-> crypto_symbol]
    /\ loc' = ConvertLocals(currency, crypto_symbol)
    /\ attempt' = 0
    /\ last_error' = NoError
    /\ events' = <<>>
    /\ response' = NoResponse
    /\ outcome' = NoOutcome
    /\ UNCHANGED MAX_RETRIES

\* One iteration of the for loop, for the answer resp of the provider; the
\* iteration that ends the loop also raises the final CoinGeckoError.
Attempt(resp) ==
    /\ pc = "convert"
    /\ attempt < MAX_RETRIES
    /\ LET r   == AttemptResult(resp, loc, args.fiat_amount)
           get == [ev |-> "get", path |-> <<"simple", "price">>, params |-> loc.params]
       IN  /\ response' = resp
           /\ IF r.kind = "return"
              THEN /\ events' = Append(events, get)
                   /\ pc' = "done"
                   /\ outcome' = [kind |-> "return", value |-> r.value, error |-> NoError]
                   /\ UNCHANGED <<attempt, last_error>>
              ELSE IF Catches(ConvertExcept, r.error)
              THEN /\ events' = Append(events, get) \o SleepAfterFailure
                   /\ last_error' = RecordError(last_error, r.error)
                   /\ attempt' = attempt + 1
                   /\ IF attempt + 1 < MAX_RETRIES
                      THEN pc' = "convert" /\ outcome' = outcome
                      ELSE /\ pc' = "done"
                           /\ outcome' = [kind |-> "raise", value |-> <<>>,
                                          error |-> Exhausted(loc, last_error')]
              ELSE /\ events' = Append(events, get)
                   /\ pc' = "done"
                   /\ outcome' = [kind |-> "raise", value |-> <<>>, error |-> r.error]
                   /\ UNCHANGED <<attempt, last_error>>
    /\ UNCHANGED <<MAX_RETRIES, op, args, loc>>

\* The whole of create_invoice, for the answer resp of the provider.
create_invoice(price_amount, price_currency, pay_currency, description, order_id, resp) ==
    /\ pc = "idle"
    /\ LET payload == InvoicePayload(price_amount, price_currency, pay_currency, description, order_id)
       IN  /\ events' = <<[ev |-> "post", path |-> <<"payment">>, json |-> payload]>>
           /\ outcome' = PaymentOutcome(resp, "Failed to create invoice", <<>>,
                                        InvoiceResult(resp.payload, payload, price_amount))
    /\ pc' = "done"
    /\ op' = "create_invoice"
    /\ args' = [price_amount |-> price_amount, price_currency |-> price_currency,
                pay_currency |-> pay_currency, description |-> description, order_id |-> order_id]
    /\ response' = resp
    /\ UNCHANGED <<MAX_RETRIES, loc, attempt, last_error>>

\* The whole of get_payment_status, for the answer resp of the provider.
get_payment_status(payment_id, resp) ==
    /\ pc = "idle"
    /\ events' = <<[ev |-> "get", path |-> <<"payment", payment_id>>]>>
    /\ outcome' = PaymentOutcome(resp, "Failed to fetch payment", <<payment_id>>,
                                 StatusResult(resp.payload, payment_id))
    /\ pc' = "done"
    /\ op' = "get_payment_status"
    /\ args' = [payment_id |-> payment_id]
    /\ response' = resp
    /\ UNCHANGED <<MAX_RETRIES, loc, attempt, last_error>>

\* The call is over: its value or error is the caller's, and the client
\* keeps nothing of it but its session.
Return ==
    /\ pc = "done"
    /\ pc' = "idle"
    /\ op' = "none"
    /\ args' = <<>>
    /\ loc' = <<>>
    /\ attempt' = 0
    /\ last_error' = NoError
    /\ events' = <<>>
    /\ response' = NoResponse
    /\ outcome' = NoOutcome
    /\ UNCHANGED MAX_RETRIES

Next ==
    \/ \E f \in FiatAmounts, c \in Currencies, s \in Symbols : CallConvert(f, c, s)
    \/ \E resp \in PriceResponses : Attempt(resp)
    \/ \E a \in InvoiceAmounts, c \in Currencies, p \in PayCurrencies, o \in OrderIds,
          resp \in InvoiceResponses : create_invoice(a, c, p, Description, o, resp)
    \/ \E id \in PaymentIds, resp \in StatusResponses : get_payment_status(id, resp)
    \/ Return

Spec == Init /\ [][Next]_vars

\* ------------------------------------------------------------------ claims
CountEvents(evs, kind) == Cardinality({i \in 1..Len(evs) : evs[i].ev = kind})
Gets == CountEvents(events, "get")
Sleeps == CountEvents(events, "sleep")

Bitcoin == <<"b","i","t","c","o","i","n">>
Litecoin == <<"l","i","t","e","c","o","i","n">>
Usd == <<"u","s","d">>

\* The provider id each modelled symbol must be queried under.
WantId(a) ==
    IF a.crypto_symbol \in {<<"B","T","C">>, <<"b","t","c">>} THEN Bitcoin
    ELSE IF a.crypto_symbol = <<"L","t","c">> THEN Litecoin
    ELSE <<"x","y","z">>

\* y is x with every upper-case letter replaced by its lower-case letter.
IsLowerOf(y, x) ==
    /\ Len(y) = Len(x)
    /\ \A i \in 1..Len(x) :
          IF \E j \in 1..26 : UpperLetters[j] = x[i]
          THEN \E j \in 1..26 : UpperLetters[j] = x[i] /\ LowerLetters[j] = y[i]
          ELSE y[i] = x[i]

\* The failure kind of an answer to convert_to_crypto called with a, read
\* off the answer alone; "none" for an answer that carries a usable price.
FailureKind(resp, a) ==
    IF resp.kind = "transport" THEN "network"
    ELSE IF resp.kind = "http_error" THEN "http status"
    ELSE IF resp.kind = "not_json" THEN "not json"
    ELSE IF WantId(a) \notin DOMAIN resp.payload THEN "missing price"
    ELSE IF Usd \notin DOMAIN resp.payload[WantId(a)] THEN "missing price"
    ELSE LET leaf == resp.payload[WantId(a)][Usd]
         IN  IF leaf \in {JNum(<<"0">>), JNum(<<"-","1">>)} THEN "non-positive price"
             ELSE IF leaf \in {JStr(<<"a","b","c">>), JNull, JStr(<<"N","a","N">>)}
             THEN "malformed price"
             ELSE "none"

\* The exception each failure kind is reported as.
ReasonType(kind) ==
    IF kind = "network" THEN "ConnectionError"
    ELSE IF kind = "http status" THEN "HTTPError"
    ELSE IF kind = "not json" THEN "JSONDecodeError"
    ELSE IF kind = "malformed price" THEN "InvalidOperation"
    ELSE "CoinGeckoError"

FiveKinds == {"network", "http status", "missing price", "non-positive price", "malformed price"}

ConvertCall == op = "convert_to_crypto"
ConvertReturned == ConvertCall /\ outcome.kind = "return"
ConvertRaised == ConvertCall /\ outcome.kind = "raise"

\* C1: attempts are made one at a time and counted; the call returns at the
\* first attempt that succeeds, its GET being the last thing the call did;
\* when every attempt fails exactly MAX_RETRIES GETs were issued and the call
\* raises CoinGeckoError wrapping the failure of the last attempt.
C1_RetryBudget ==
    ConvertCall =>
        /\ Gets <= MAX_RETRIES
        /\ pc = "convert" => /\ Gets = attempt
                             /\ attempt < MAX_RETRIES
                             /\ outcome = NoOutcome
                             /\ attempt > 0 => FailureKind(response, args) # "none"
        /\ pc = "done" => outcome.kind \in {"return", "raise"}
        /\ ConvertReturned =>
              /\ FailureKind(response, args) = "none"
              /\ Gets = attempt + 1
              /\ events[Len(events)].ev = "get"
        /\ ConvertRaised =>
              /\ Gets = MAX_RETRIES
              /\ attempt = MAX_RETRIES
              /\ outcome.error.type = "CoinGeckoError"
              /\ outcome.error.msg = "Unable to fetch price"
              /\ FailureKind(response, args) # "none"
              /\ outcome.error.cause.type = ReasonType(FailureKind(response, args))
              /\ outcome.error.cause = last_error

\* C1 witness: with MAX_RETRIES = 3 all three attempts failed, the last one on
\* a malformed price, and the call raised.
C1_Witness ==
    /\ ConvertRaised
    /\ MAX_RETRIES = 3
    /\ Gets = 3
    /\ outcome.error.cause.type = "InvalidOperation"

\* C2: an attempt that fails in any of the five kinds consumes exactly one
\* attempt and one GET, records its reason, leaves the call running while
\* budget remains, and surfaces only as the final CoinGeckoError.
C2_FailureKindsAlike ==
    [][(pc = "convert" /\ FailureKind(response', args) \in FiveKinds) =>
          /\ attempt' = attempt + 1
          /\ CountEvents(events', "get") = Gets + 1
          /\ last_error'.type = ReasonType(FailureKind(response', args))
          /\ attempt + 1 < MAX_RETRIES => pc' = "convert" /\ outcome' = NoOutcome
          /\ attempt + 1 = MAX_RETRIES =>
                /\ pc' = "done"
                /\ outcome'.kind = "raise"
                /\ outcome'.error.type = "CoinGeckoError"
                /\ outcome'.error.msg = "Unable to fetch price"]_vars

\* C2 witness: a malformed price string used up the first attempt and the
\* loop goes on.
C2_Witness ==
    /\ ConvertCall
    /\ pc = "convert"
    /\ attempt = 1
    /\ FailureKind(response, args) = "malformed price"
    /\ last_error.type = "InvalidOperation"

\* fiat / price in units of 10^-8, rounded half-even, by exact integer
\* arithmetic: floor and remainder of cf * 10^k / cp.
RECURSIVE ScaleUp(_, _, _, _)
ScaleUp(q, r, d, k) ==
    IF k = 0 THEN <<q, r>> ELSE ScaleUp(q * 10 + (r * 10) \div d, (r * 10) % d, d, k - 1)

RECURSIVE Pow10(_)
Pow10(n) == IF n = 0 THEN 1 ELSE 10 * Pow10(n - 1)

ExpectedUnits(fiat, price) ==
    LET cf == DigitsToInt(fiat.digits)
        cp == DigitsToInt(price.digits)
        k  == fiat.exp - price.exp + 8
        d  == IF k >= 0 THEN cp ELSE cp * Pow10(-k)
        qr == ScaleUp(cf \div d, cf % d, d, IF k >= 0 THEN k ELSE 0)
        q  == qr[1]
        r  == qr[2]
    IN  IF 2 * r > d \/ (2 * r = d /\ q % 2 = 1) THEN q + 1 ELSE q

\* The price the answer carries for the call's id and currency.
AnsweredPrice == ParseDecimal(PyStr(response.payload[WantId(args)][Usd]))

\* C3: a returned amount is fiat_amount / price at exactly 8 fractional
\* digits, rounded half-even, and the price behind it is strictly positive.
C3_QuantizedQuotient ==
    ConvertReturned =>
        /\ AnsweredPrice.kind = "finite"
        /\ AnsweredPrice.sign = 0
        /\ DigitsToInt(AnsweredPrice.digits) > 0
        /\ outcome.value.kind = "finite"
        /\ outcome.value.sign = 0
        /\ outcome.value.exp = -8
        /\ DigitsToInt(outcome.value.digits) = ExpectedUnits(args.fiat_amount, AnsweredPrice)

\* C3 witness: fiat 100 at price "50000" gave 0.00200000.
C3_Witness ==
    /\ ConvertReturned
    /\ args.fiat_amount = Finite(0, <<1,0,0>>, 0)
    /\ response.payload[WantId(args)][Usd] = JStr(<<"5","0","0","0","0">>)
    /\ outcome.value = Finite(0, <<2,0,0,0,0,0>>, -8)

InvoiceCall == op = "create_invoice"
NoValue(v) == v \in {JAbsent, JNull, JStr(<<>>)}

\* C4: create_invoice posts once; an answer without payment_id, pay_address
\* or pay_amount raises NowPaymentsError "Unexpected NOWPayments response";
\* a returned invoice has all three, pay_amount being the answer's.
C4_InvoiceValidated ==
    InvoiceCall =>
        /\ Len(events) = 1
        /\ events[1].ev = "post"
        /\ events[1].path = <<"payment">>
        /\ (/\ response.kind = "json"
            /\ \/ NoValue(response.payload.payment_id)
               \/ NoValue(response.payload.pay_address)
               \/ response.payload.pay_amount \in {JAbsent, JNull})
           => /\ outcome.kind = "raise"
              /\ outcome.error.type = "NowPaymentsError"
              /\ outcome.error.msg = "Unexpected NOWPayments response"
              /\ outcome.error.data = response.payload
        /\ outcome.kind = "return" =>
              /\ response.kind = "json"
              /\ outcome.value.payment_id # <<>>
              /\ outcome.value.payment_id = response.payload.payment_id.s
              /\ outcome.value.pay_address # <<>>
              /\ outcome.value.pay_address = response.payload.pay_address.s
              /\ response.payload.pay_amount.t \in {"str", "num"}
              /\ outcome.value.pay_amount = ParseDecimal(response.payload.pay_amount.s)

\* C4 witness: an answer complete but for pay_address was refused.
C4_Witness ==
    /\ InvoiceCall
    /\ response.kind = "json"
    /\ response.payload.payment_id = JStr(<<"1","2","3">>)
    /\ response.payload.pay_address = JAbsent
    /\ response.payload.pay_amount = JStr(<<"0",".","0","0","2">>)
    /\ outcome.kind = "raise"
    /\ outcome.error.msg = "Unexpected NOWPayments response"

\* C5: the posted body has order_id exactly when the argument is given and
\* not empty, as its text; the other four keys are always there, the two
\* currencies in lower case.
C5_OrderIdInBody ==
    InvoiceCall =>
        LET body == events[1].json
            oid  == args.order_id
        IN  /\ oid = JNull => "order_id" \notin DOMAIN body
            /\ "order_id" \in DOMAIN body => oid.t \in {"str", "num"} /\ oid.s # <<>>
            /\ (oid.t = "str" /\ oid.s # <<>>) => "order_id" \in DOMAIN body
            /\ oid = JNum(<<"4","2">>) => "order_id" \in DOMAIN body
            /\ "order_id" \in DOMAIN body => body.order_id = oid.s
            /\ {"price_amount", "price_currency", "pay_currency", "order_description"}
                  \subseteq DOMAIN body
            /\ IsLowerOf(body.price_currency, args.price_currency)
            /\ IsLowerOf(body.pay_currency, args.pay_currency)
            /\ body.order_description = args.description
            /\ body.price_amount = Float(args.price_amount)

\* C5 witness: order_id "A1" was posted as "A1" with upper-case currencies lowered.
C5_Witness ==
    /\ InvoiceCall
    /\ args.order_id = JStr(<<"A","1">>)
    /\ args.pay_currency = <<"B","T","C">>
    /\ events[1].json.order_id = <<"A","1">>
    /\ events[1].json.pay_currency = <<"b","t","c">>

StatusCall == op = "get_payment_status"

\* C6: get_payment_status sends one GET to payment/{payment_id}; a non-empty
\* payment_status string is returned as it is; an absent or empty one raises
\* NowPaymentsError naming the payment id and carrying the payload.
C6_StatusVerbatim ==
    StatusCall =>
        /\ events = <<[ev |-> "get", path |-> <<"payment", args.payment_id>>]>>
        /\ response.kind = "json" =>
              LET status == response.payload.payment_status
              IN  /\ (status.t = "str" /\ status.s # <<>>) =>
                         outcome.kind = "return" /\ outcome.value = status.s
                  /\ status = JNum(<<"5">>) =>
                         outcome.kind = "return" /\ outcome.value = <<"5">>
                  /\ NoValue(status) =>
                         /\ outcome.kind = "raise"
                         /\ outcome.error.type = "NowPaymentsError"
                         /\ outcome.error.msg = "returned unexpected payload"
                         /\ outcome.error.about = <<args.payment_id>>
                         /\ outcome.error.data = response.payload
        /\ outcome.kind = "return" =>
              response.kind = "json" /\ ~NoValue(response.payload.payment_status)

\* C6 witness: the status "Finished" came back with its capital letter.
C6_Witness ==
    /\ StatusCall
    /\ response.kind = "json"
    /\ response.payload.payment_status = JStr(<<"F","i","n","i","s","h","e","d">>)
    /\ outcome.kind = "return"
    /\ outcome.value = <<"F","i","n","i","s","h","e","d">>

\* C7: a returned invoice carries the answer's price_amount when the answer
\* has one and the requested price_amount otherwise; its two currencies are
\* the lower-cased arguments, not the answer's.
C7_InvoicePriceAmount ==
    (InvoiceCall /\ outcome.kind = "return") =>
        /\ response.payload.price_amount = JStr(<<"2","5",".","5">>) =>
              outcome.value.price_amount = Finite(0, <<2,5,5>>, -1)
        /\ response.payload.price_amount = JAbsent =>
              outcome.value.price_amount = args.price_amount
        /\ response.payload.price_amount \in {JStr(<<"2","5",".","5">>), JAbsent}
        /\ IsLowerOf(outcome.value.price_currency, args.price_currency)
        /\ IsLowerOf(outcome.value.pay_currency, args.pay_currency)

\* C7 witness: an answer without price_amount gave back the requested 10.00.
C7_Witness ==
    /\ InvoiceCall
    /\ outcome.kind = "return"
    /\ response.payload.price_amount = JAbsent
    /\ args.price_amount = Finite(0, <<1,0,0,0>>, -2)
    /\ outcome.value.price_amount = Finite(0, <<1,0,0,0>>, -2)

\* C8: every GET of a call queries the id the lower-cased symbol resolves to
\* (btc -> bitcoin, ltc -> litecoin, anything else itself) and the
\* lower-cased currency, and the price returned on is the one found under
\* that id and currency in the answer.
C8_ResolvedId ==
    ConvertCall =>
        /\ \A i \in 1..Len(events) :
              events[i].ev = "get" =>
                 /\ events[i].params.ids = WantId(args)
                 /\ events[i].params.vs_currencies = Usd
                 /\ IsLowerOf(events[i].params.vs_currencies, args.currency)
        /\ ConvertReturned =>
              /\ WantId(args) \in DOMAIN response.payload
              /\ Usd \in DOMAIN response.payload[WantId(args)]
              /\ DigitsToInt(outcome.value.digits) = ExpectedUnits(args.fiat_amount, AnsweredPrice)

\* C8 witness: "BTC" was queried as "bitcoin" and answered from that key of
\* an answer that also has a "btc" key.
C8_Witness ==
    /\ ConvertReturned
    /\ args.crypto_symbol = <<"B","T","C">>
    /\ events[1].params.ids = Bitcoin
    /\ DOMAIN response.payload = {Bitcoin, <<"b","t","c">>}

\* C9: sleeps happen between consecutive attempts only: a call whose
\* MAX_RETRIES attempts all failed slept MAX_RETRIES - 1 times and did not
\* sleep after its last GET.
C9_SleepBetweenAttemptsOnly ==
    ConvertRaised =>
        /\ Sleeps = Gets - 1
        /\ events[Len(events)].ev = "get"

\* C10: create_invoice and get_payment_status end by returning their result
\* or by raising NowPaymentsError, whatever the provider answers.
C10_OnlyNowPaymentsError ==
    ((InvoiceCall \/ StatusCall) /\ pc = "done") =>
        \/ outcome.kind = "return"
        \/ outcome.kind = "raise" /\ outcome.error.type = "NowPaymentsError"

====
